---- MODULE Spec2Model ----
(***************************************************************************)
(* Model of src/Problem_2/rrt.py: the RRT planner (RRT.solve) run on the   *)
(* straight-line variant GeometricRRT, and the steering capabilities       *)
(* find_nearest / steer_towards of GeometricRRT and DubinsRRT as pure      *)
(* functions.                                                              *)
(*                                                                         *)
(* Configurations are points of an integer lattice.  The Euclidean norm is *)
(* compared through its square (d < eps <=> d*d < eps*eps for eps >= 0),   *)
(* and the random draws are restricted to those for which the steered      *)
(* point x + eps*(cos theta, sin theta) is again a lattice point, so that  *)
(* every value of the model is the exact real value the code computes;     *)
(* floating-point rounding is not modelled.  Python index i of a           *)
(* configuration is component i+1 of the tuple.                            *)
(***************************************************************************)
EXTENDS Integers, Sequences, FiniteSets, TLC

\* ---------------------------------------------------------------- bounds
GridMax == 2        \* the state space is [0, GridMax] x [0, GridMax]
MaxIters == 3       \* largest max_iters passed to solve
MaxEps == 3         \* largest eps passed to solve / steer_towards
MaxNodes == 3       \* longest node list handed to find_nearest on its own
MaxPathLen == 2     \* largest length the dubins.path_length oracle returns

VARIABLES
    variant,                                                  \* class of the planner object
    statespace_lo, statespace_hi, x_init, x_goal, obstacles,  \* RRT fields
    eps, max_iters, goal_bias,                                \* solve arguments
    V, P, n, success, solution_path,                          \* solve locals
    k, x_rand, idx_near, x_new,                               \* loop locals
    pc,                                                       \* position in solve
    plen,                                                     \* dubins.path_length oracle
    call,                                                     \* last stand-alone capability call
    astar                                                     \* the AStar object of src/Problem_1/astar.py

fields == <<variant, statespace_lo, statespace_hi, x_init, x_goal, obstacles>>
args == <<eps, max_iters, goal_bias>>
tree == <<V, P, n>>
locals == <<success, solution_path, k, x_rand, idx_near, x_new>>
vars == <<fields, args, tree, locals, pc, plen, call, astar>>

\* ------------------------------------------------------------ value sets
Lattice == (0..GridMax) \X (0..GridMax)

\* goal_bias and the draw z of np.random.random_sample(), in halves:
\* goal_bias is 0, 0.5 or 1.0 and z, which lies in [0, 1), is 0 or 0.5.
GoalBiasValues == {0, 1, 2}
ZDraws == {0, 1}

\* A wall the straight lines from <<0,0>> to <<GridMax,GridMax>> and to
\* <<GridMax,0>> both run into (at <<1,1>> and at <<1.5,0>>); the step
\* from <<0,0>> to <<1,0>> stops short of it, and <<0,1>> sees past it.
Wall == << <<1, 1>>, <<2, -1>> >>
ObstacleSets == { <<>>, <<Wall>> }

InitPoints == { <<0, 0>> }
GoalPoints == { <<0, 0>>, <<GridMax, 0>>, <<GridMax, GridMax>> }

\* Stands for an unassigned Python local.
None == <<>>

\* no AStar object has been constructed
NoAStar == [pc |-> "none"]

Reverse(s) == [i \in 1..Len(s) |-> s[Len(s) + 1 - i]]

\* ------------------------------------------------- utils (CollisionChecker)
Sign(v) == IF v > 0 THEN 1 ELSE IF v < 0 THEN -1 ELSE 0

Orientation(a, b, c) ==
    Sign((b[1] - a[1]) * (c[2] - a[2]) - (b[2] - a[2]) * (c[1] - a[1]))

Min2(a, b) == IF a < b THEN a ELSE b
Max2(a, b) == IF a < b THEN b ELSE a

\* c, known to be collinear with a and b, lies on the segment a-b
OnSegment(a, b, c) ==
    /\ Min2(a[1], b[1]) <= c[1] /\ c[1] <= Max2(a[1], b[1])
    /\ Min2(a[2], b[2]) <= c[2] /\ c[2] <= Max2(a[2], b[2])

line_line_intersection(l1, l2) ==
    LET a1 == l1[1]
        a2 == l1[2]
        b1 == l2[1]
        b2 == l2[2]
        o1 == Orientation(a1, a2, b1)
        o2 == Orientation(a1, a2, b2)
        o3 == Orientation(b1, b2, a1)
        o4 == Orientation(b1, b2, a2)
    IN  \/ (o1 # o2 /\ o3 # o4)
        \/ (o1 = 0 /\ OnSegment(a1, a2, b1))
        \/ (o2 = 0 /\ OnSegment(a1, a2, b2))
        \/ (o3 = 0 /\ OnSegment(b1, b2, a1))
        \/ (o4 = 0 /\ OnSegment(b1, b2, a2))

\* ----------------------------------------------------------- GeometricRRT
\* np.linalg.norm(x1 - x2), squared
distance_sq(x1, x2) ==
    (x1[1] - x2[1]) * (x1[1] - x2[1]) + (x1[2] - x2[2]) * (x1[2] - x2[2])

\* np.argmin scans d from index 0 and keeps the first least value
RECURSIVE argmin_scan(_, _, _)
argmin_scan(d, i, best) ==
    IF i > Len(d) - 1 THEN best
    ELSE argmin_scan(d, i + 1, IF d[i + 1] < d[best + 1] THEN i ELSE best)

RECURSIVE argmin_scan_le(_, _, _)
argmin_scan_le(d, i, best) ==
    IF i > Len(d) - 1 THEN best
    ELSE argmin_scan_le(d, i + 1, IF d[i + 1] <= d[best + 1] THEN i ELSE best)

argmin_last(d) == argmin_scan_le(d, 1, 0)

argmin(d) == argmin_scan(d, 1, 0)

\* nodes is the list of rows V[:n,:]
GeometricRRT_find_nearest(nodes, x) ==
    argmin([i \in 1..Len(nodes) |-> distance_sq(nodes[i], x)])

\* the displacements of length exactly e on the lattice
Offsets(e) ==
    { d \in ((0 - e)..e) \X ((0 - e)..e) : d[1] * d[1] + d[2] * d[2] = e * e }

\* e * (cos theta, sin theta) for theta = arctan2(y[1]-x[1], y[0]-x[0])
Bearing(x, y, e) ==
    { d \in Offsets(e) :
        /\ d[1] * (y[2] - x[2]) = d[2] * (y[1] - x[1])
        /\ d[1] * (y[1] - x[1]) + d[2] * (y[2] - x[2]) >= 0 }

\* the steered point is a lattice point
SteerExact(x, y, e) ==
    \/ distance_sq(x, y) < e * e
    \/ x = y
    \/ Bearing(x, y, e) # {}

\* which branch of steer_towards runs
GeometricRRT_steer_branch_le(x, y, e) ==
    IF distance_sq(x, y) <= e * e THEN "return_y" ELSE "bearing"

GeometricRRT_steer_branch(x, y, e) ==
    IF distance_sq(x, y) < e * e THEN "return_y" ELSE "bearing"

GeometricRRT_steer_towards(x, y, e) ==
    IF GeometricRRT_steer_branch(x, y, e) = "return_y"
    THEN y
    ELSE IF x = y
         THEN <<x[1] + e, x[2]>>        \* arctan2(0, 0) = 0
         ELSE LET d == CHOOSE d \in Bearing(x, y, e) : TRUE
              IN  <<x[1] + d[1], x[2] + d[2]>>

GeometricRRT_is_free_motion(obs, x1, x2) ==
    \A i \in 1..Len(obs) : ~line_line_intersection(<<x1, x2>>, obs[i])

\* -------------------------------------------------------------- DubinsRRT
\* (x, y, heading) configurations handed to the stand-alone capability calls
DubinsConfigs == { <<0, 0, 0>>, <<0, 0, 1>>, <<1, 0, 0>> }

\* dubins.path_length(x1, x2, turning_radius): an oracle outside the
\* repository; any table that is 0 between coincident configurations and
\* positive otherwise, symmetric or not.
PathLengthTables ==
    { t \in [DubinsConfigs \X DubinsConfigs -> 0..MaxPathLen] :
        \A c \in DubinsConfigs \X DubinsConfigs : (t[c] = 0) <=> (c[1] = c[2]) }

DefaultPathLength ==
    [c \in DubinsConfigs \X DubinsConfigs |-> IF c[1] = c[2] THEN 0 ELSE 1]

DubinsRRT_distance(x1, x2) == plen[<<x1, x2>>]

DubinsRRT_find_nearest(nodes, x) ==
    argmin([i \in 1..Len(nodes) |-> DubinsRRT_distance(nodes[i], x)])

DubinsRRT_steer_branch(x, y, e) ==
    IF DubinsRRT_distance(x, y) < e THEN "return_y" ELSE "path_sample"

\* the outcome of a call that raises IndexError
IndexError == <<"IndexError">>

\* path_sample(x, y, 1.001*turning_radius, eps)[0][1]: the second waypoint
\* the oracle returns, or IndexError when it returns fewer than two.
DubinsRRT_steer_towards(x, y, e) ==
    IF DubinsRRT_steer_branch(x, y, e) = "return_y"
    THEN {y}
    ELSE DubinsConfigs \cup {IndexError}

\* -------------------------------------------------------------- RRT.solve
\* the rows V[:n,:] as a list
Rows(Vv, nn) == [i \in 1..nn |-> Vv[i - 1]]

\* np.random.uniform(lo, hi) per dimension: a value of [lo, hi)
UniformDraws ==
    { u \in Lattice :
        \A i \in 1..2 :
            /\ statespace_lo[i] <= u[i]
            /\ (u[i] < statespace_hi[i] \/ statespace_lo[i] = statespace_hi[i]) }

\* lines 80-84: x_rand for every draw z and every uniform draw
Samples ==
    { IF z < goal_bias THEN x_goal ELSE u : z \in ZDraws, u \in UniformDraws }

array_equal(a, b) == a = b

\* lines 91-93: V[n,:] = x_new; P[n] = idx_near; n = n + 1
ExtendTree_IncrementFirst(Vv, Pp, nn, idx, xn) ==
    [V |-> [Vv EXCEPT ![nn] = xn], P |-> [Pp EXCEPT ![nn + 1] = idx], n |-> nn + 1]

ExtendTree(Vv, Pp, nn, idx, xn) ==
    [V |-> [Vv EXCEPT ![nn] = xn], P |-> [Pp EXCEPT ![nn] = idx], n |-> nn + 1]

\* lines 90-93: the tree after the collision gate
Commit_Ungated(Vv, Pp, nn, idx, xn, free) ==
    IF free \/ nn \in DOMAIN Vv THEN ExtendTree(Vv, Pp, nn, idx, xn)
    ELSE [V |-> Vv, P |-> Pp, n |-> nn]

Commit_WriteBeforeGate(Vv, Pp, nn, idx, xn, free) ==
    IF free THEN ExtendTree(Vv, Pp, nn, idx, xn)
    ELSE [V |-> [Vv EXCEPT ![nn] = xn], P |-> Pp, n |-> nn]

Commit(Vv, Pp, nn, idx, xn, free) ==
    IF free THEN ExtendTree(Vv, Pp, nn, idx, xn)
    ELSE [V |-> Vv, P |-> Pp, n |-> nn]

\* lines 99-101: the states appended while walking the parent links
RECURSIVE path_back(_, _, _, _)
path_back(Vv, Pp, xi, idx_cur) ==
    IF array_equal(Vv[idx_cur], xi) THEN <<>>
    ELSE <<Vv[Pp[idx_cur]]>> \o path_back(Vv, Pp, xi, Pp[idx_cur])

\* lines 97-101: the values idx_cur takes during the walk
RECURSIVE walk_indices(_, _, _, _)
walk_indices(Vv, Pp, xi, idx_cur) ==
    IF array_equal(Vv[idx_cur], xi) THEN <<idx_cur>>
    ELSE <<idx_cur>> \o walk_indices(Vv, Pp, xi, Pp[idx_cur])

\* lines 97-102
reconstruct_unreversed(Vv, Pp, nn, xi, xg) ==
    <<xg>> \o path_back(Vv, Pp, xi, nn - 1)

reconstruct(Vv, Pp, nn, xi, xg) ==
    Reverse(<<xg>> \o path_back(Vv, Pp, xi, nn - 1))

\* ------------------------------------------------------------------ states
\* grrt = GeometricRRT(lo, hi, x_init, x_goal, obstacles), and the arguments
\* of the solve call to come
Init ==
    /\ variant = "GeometricRRT"
    /\ statespace_lo = <<0, 0>>
    /\ statespace_hi = <<GridMax, GridMax>>
    /\ x_init \in InitPoints
    /\ x_goal \in GoalPoints
    /\ obstacles \in ObstacleSets
    /\ eps \in 0..MaxEps
    /\ max_iters \in 0..MaxIters
    /\ goal_bias \in GoalBiasValues
    /\ V = None /\ P = None /\ n = 0
    /\ success = FALSE /\ solution_path = None
    /\ k = 0 /\ x_rand = None /\ idx_near = -1 /\ x_new = None
    /\ pc = "start"
    /\ plen = DefaultPathLength
    /\ call = [op |-> "none"]
    /\ astar = NoAStar

\* line 56
state_dim == Len(x_init)

\* a row of np.zeros((max_iters, state_dim)), line 60
zeros(d) == [i \in 1..d |-> 0]

\* lines 56-77.  V[0,:] = x_init raises IndexError on an array of 0 rows.
SolveBegin ==
    /\ pc = "start"
    /\ IF max_iters = 0
       THEN /\ pc' = "IndexError"
            /\ V' = [i \in {} |-> zeros(state_dim)]
            /\ UNCHANGED <<P, n, success>>
       ELSE /\ V' = [i \in 0..(max_iters - 1) |->
                        IF i = 0 THEN x_init ELSE zeros(state_dim)]
            /\ n' = 1
            /\ P' = [i \in 0..(max_iters - 1) |-> -1]
            /\ success' = FALSE
            /\ pc' = "loop"
    /\ UNCHANGED <<fields, args, solution_path, k, x_rand, idx_near, x_new, plen, astar, call>>

\* lines 78-104: one iteration of the loop.  k counts the iterations run.
\* V[n,:] = x_new raises IndexError when n = max_iters.
Iterate ==
    /\ pc = "loop"
    /\ k < max_iters
    /\ \E xr \in Samples :
        LET idx == GeometricRRT_find_nearest(Rows(V, n), xr)
            x_near == V[idx]
            xn == GeometricRRT_steer_towards(x_near, xr, eps)
            free == GeometricRRT_is_free_motion(obstacles, x_near, xn)
            t == Commit(V, P, n, idx, xn, free)
        IN  /\ SteerExact(x_near, xr, eps)
            /\ x_rand' = xr
            /\ idx_near' = idx
            /\ x_new' = xn
            /\ k' = k + 1
            /\ IF free /\ n >= max_iters
               THEN /\ pc' = "IndexError"
                    /\ UNCHANGED <<tree, success, solution_path>>
               ELSE /\ V' = t.V
                    /\ P' = t.P
                    /\ n' = t.n
                    /\ IF free /\ array_equal(xn, x_goal)
                       THEN /\ solution_path' = reconstruct(t.V, t.P, t.n, x_init, x_goal)
                            /\ success' = TRUE
                            /\ pc' = "plot"
                       ELSE /\ UNCHANGED <<success, solution_path>>
                            /\ pc' = "loop"
    /\ UNCHANGED <<fields, args, plen, astar, call>>

\* line 78: range(max_iters) is exhausted
LoopExit ==
    /\ pc = "loop"
    /\ k = max_iters
    /\ pc' = "plot"
    /\ UNCHANGED <<fields, args, tree, locals, plen, astar, call>>

\* lines 106-115: the figure is drawn from V, P, n and solution_path
Plot ==
    /\ pc = "plot"
    /\ pc' = "done"
    /\ UNCHANGED <<fields, args, tree, locals, plen, astar, call>>

Next == SolveBegin \/ Iterate \/ LoopExit \/ Plot

Spec == Init /\ [][Next]_vars

\* ------------------------------------------ stand-alone capability calls
\* the nodes handed to a stand-alone call of a GeometricRRT capability
CallPoints == (0..1) \X (0..GridMax)

Configs(v) == IF v = "GeometricRRT" THEN CallPoints ELSE DubinsConfigs

NodeLists(v) == UNION { [1..m -> Configs(v)] : m \in 1..MaxNodes }

find_nearest(v, nodes, x) ==
    IF v = "GeometricRRT" THEN GeometricRRT_find_nearest(nodes, x)
    ELSE DubinsRRT_find_nearest(nodes, x)

\* a planner object of either class, no call made yet
InitSteering ==
    /\ \/ (variant = "GeometricRRT" /\ plen = DefaultPathLength)
       \/ (variant = "DubinsRRT" /\ plen \in PathLengthTables)
    /\ statespace_lo = <<0, 0>>
    /\ statespace_hi = <<GridMax, GridMax>>
    /\ x_init = <<0, 0>>
    /\ x_goal = <<GridMax, GridMax>>
    /\ obstacles = <<>>
    /\ eps = 0 /\ max_iters = 0 /\ goal_bias = 0
    /\ V = None /\ P = None /\ n = 0
    /\ success = FALSE /\ solution_path = None
    /\ k = 0 /\ x_rand = None /\ idx_near = -1 /\ x_new = None
    /\ pc = "start"
    /\ call = [op |-> "none"]
    /\ astar = NoAStar

\* rrt.find_nearest(nodes, x)
CallFindNearest ==
    /\ call.op = "none"
    /\ \E nodes \in NodeLists(variant), x \in Configs(variant) :
        call' = [op |-> "find_nearest", V |-> nodes, x |-> x,
                 ret |-> find_nearest(variant, nodes, x)]
    /\ UNCHANGED <<fields, args, tree, locals, pc, plen, astar>>

\* rrt.steer_towards(x, y, e)
CallSteerTowards ==
    /\ call.op = "none"
    /\ \E x \in Configs(variant), y \in Configs(variant), e \in 0..MaxEps :
        IF variant = "GeometricRRT"
        THEN /\ SteerExact(x, y, e)
             /\ call' = [op |-> "steer_towards", x |-> x, y |-> y, eps |-> e,
                         branch |-> GeometricRRT_steer_branch(x, y, e),
                         ret |-> GeometricRRT_steer_towards(x, y, e)]
        ELSE \E r \in DubinsRRT_steer_towards(x, y, e) :
                call' = [op |-> "steer_towards", x |-> x, y |-> y, eps |-> e,
                         branch |-> DubinsRRT_steer_branch(x, y, e),
                         ret |-> r]
    /\ UNCHANGED <<fields, args, tree, locals, pc, plen, astar>>

NextSteering == CallFindNearest \/ CallSteerTowards

SpecSteering == InitSteering /\ [][NextSteering]_vars

\* ------------------------------- the base class and ill-formed planners
\* the dimensions of bounds, x_init and x_goal disagree
DimensionMismatch ==
    ~(/\ Len(statespace_lo) = Len(x_init)
      /\ Len(statespace_hi) = Len(x_init)
      /\ Len(x_goal) = Len(x_init))

\* an obstacle that is not a pair of points
MalformedObstacle == \E i \in 1..Len(obstacles) : Len(obstacles[i]) # 2

Misconfigured == DimensionMismatch \/ MalformedObstacle

\* line 84: zip(lo, hi) stops at the shorter of the two
UniformDim == Min2(Len(statespace_lo), Len(statespace_hi))

\* constructor arguments: the well-formed problem, the ones in which the
\* dimension of every sample differs from len(x_init), and one with an
\* obstacle of a single point
ConstructorArgs ==
    LET lo2 == <<0, 0>>
        lo3 == <<0, 0, 0>>
        hi2 == <<GridMax, GridMax>>
        hi3 == <<GridMax, GridMax, GridMax>>
        i2 == <<0, 0>>
        i3 == <<0, 0, 0>>
        g2 == <<GridMax, GridMax>>
        g3 == <<GridMax, GridMax, 0>>
        r(lo, hi, xi, xg, obs) ==
            [lo |-> lo, hi |-> hi, x_init |-> xi, x_goal |-> xg, obstacles |-> obs]
    IN  { r(lo2, hi2, i2, g2, <<>>),
          r(lo2, hi2, i3, g2, <<>>),
          r(lo2, hi3, i3, g2, <<>>),
          r(lo3, hi2, i3, g2, <<>>),
          r(lo3, hi3, i2, g3, <<>>),
          r(lo2, hi2, i2, g2, << << <<1, 1>> >> >>) }

\* the arguments of RRT(...) or GeometricRRT(...), before __init__ runs;
\* the well-formed GeometricRRT is the planner of Spec
InitMisuse ==
    /\ variant \in {"RRT", "GeometricRRT"}
    /\ \E a \in ConstructorArgs :
        /\ statespace_lo = a.lo
        /\ statespace_hi = a.hi
        /\ x_init = a.x_init
        /\ x_goal = a.x_goal
        /\ obstacles = a.obstacles
    /\ (variant = "GeometricRRT" => Misconfigured)
    /\ eps \in 1..MaxEps
    /\ max_iters \in 0..1
    /\ goal_bias \in GoalBiasValues
    /\ V = None /\ P = None /\ n = 0
    /\ success = FALSE /\ solution_path = None
    /\ k = 0 /\ x_rand = None /\ idx_near = -1 /\ x_new = None
    /\ pc = "new"
    /\ plen = DefaultPathLength
    /\ call = [op |-> "none"]
    /\ astar = NoAStar

\* lines 9-14: every argument is stored, none is examined
Construct ==
    /\ pc = "new"
    /\ pc' = "start"
    /\ UNCHANGED <<fields, args, tree, locals, plen, astar, call>>

\* rrt.is_free_motion(obstacles, x1, x2) on the base class, lines 23-24
BaseIsFreeMotion ==
    /\ variant = "RRT" /\ pc = "start" /\ call.op = "none"
    /\ \E x1 \in CallPoints, x2 \in CallPoints :
        call' = [op |-> "is_free_motion", x1 |-> x1, x2 |-> x2,
                 raised |-> "NotImplementedError"]
    /\ UNCHANGED <<fields, args, tree, locals, pc, plen, astar>>

\* rrt.find_nearest(V, x) on the base class, lines 32-33
BaseFindNearest ==
    /\ variant = "RRT" /\ pc = "start" /\ call.op = "none"
    /\ \E nodes \in [1..1 -> CallPoints], x \in CallPoints :
        call' = [op |-> "find_nearest", V |-> nodes, x |-> x,
                 raised |-> "NotImplementedError"]
    /\ UNCHANGED <<fields, args, tree, locals, pc, plen, astar>>

\* rrt.steer_towards(x, y, eps) on the base class, lines 43-44
BaseSteerTowards ==
    /\ variant = "RRT" /\ pc = "start" /\ call.op = "none"
    /\ \E x \in CallPoints, y \in CallPoints :
        call' = [op |-> "steer_towards", x |-> x, y |-> y, eps |-> eps,
                 raised |-> "NotImplementedError"]
    /\ UNCHANGED <<fields, args, tree, locals, pc, plen, astar>>

\* rrt.distance(x1, x2) on the base class: class RRT (lines 7-115) defines
\* no attribute distance, so the attribute lookup itself fails
BaseDistance ==
    /\ variant = "RRT" /\ pc = "start" /\ call.op = "none"
    /\ \E x1 \in CallPoints, x2 \in CallPoints :
        call' = [op |-> "distance", x1 |-> x1, x2 |-> x2,
                 raised |-> "AttributeError"]
    /\ UNCHANGED <<fields, args, tree, locals, pc, plen, astar>>

\* lines 78-85 on the base class or with samples of the wrong dimension:
\* find_nearest of the base class raises NotImplementedError; in
\* GeometricRRT x1 - x2 (line 123) raises ValueError when the sample and
\* the rows of V differ in length
IterateFails ==
    /\ pc = "loop"
    /\ k < max_iters
    /\ \E z \in ZDraws :
        LET dim == IF z < goal_bias THEN Len(x_goal) ELSE UniformDim
            xr == IF z < goal_bias THEN x_goal
                  ELSE [i \in 1..dim |-> statespace_lo[i]]
        IN  /\ variant = "RRT" \/ (dim # state_dim /\ dim > 1 /\ state_dim > 1)
            /\ x_rand' = xr
            /\ k' = k + 1
            /\ pc' = IF variant = "RRT" THEN "NotImplementedError" ELSE "ValueError"
    /\ UNCHANGED <<fields, args, tree, success, solution_path, idx_near, x_new,
                   plen, astar, call>>

NextMisuse ==
    \/ Construct
    \/ BaseIsFreeMotion
    \/ BaseFindNearest
    \/ BaseSteerTowards
    \/ BaseDistance
    \/ SolveBegin
    \/ IterateFails

SpecMisuse == InitMisuse /\ [][NextMisuse]_vars

\* ------------------------------------------------ src/Problem_1/astar.py
\* Lengths are integers in hundredths of a metre.  The default resolution
\* of 1 is 100; a distance is the Euclidean norm cut to a whole number of
\* hundredths.
resolution == 100

\* the map is Width x Height, Height = Width
Width == 3

\* floor of the square root, by bisection on [lo, hi]
RECURSIVE isqrt_between(_, _, _)
isqrt_between(v, lo, hi) ==
    IF lo >= hi THEN lo
    ELSE LET mid == (lo + hi + 1) \div 2
         IN  IF mid <= v \div mid       \* mid * mid <= v
             THEN isqrt_between(v, mid, hi)
             ELSE isqrt_between(v, lo, mid - 1)

sqrt(v) == isqrt_between(v, 0, v)

\* round(v / r) of Python 2: to the nearest integer, halves away from zero
round(v, r) ==
    IF v >= 0 THEN (2 * v + r) \div (2 * r)
    ELSE 0 - ((r - 2 * v) \div (2 * r))

\* lines 58-59
snap_to_grid(x) ==
    <<resolution * round(x[1], resolution), resolution * round(x[2], resolution)>>

\* lines 51-52
distance(x1, x2) ==
    sqrt((x1[1] - x2[1]) * (x1[1] - x2[1]) + (x1[2] - x2[2]) * (x1[2] - x2[2]))

\* lines 160-169: x lies in no rectangle obs = (lower corner, upper corner)
DetOccupancyGrid2D_is_free(obs, x) ==
    \A i \in 1..Len(obs) :
        ~(\A dim \in 1..2 : obs[i][1][dim] <= x[dim] /\ x[dim] <= obs[i][2][dim])

\* lines 34-44
is_free(a, x) ==
    IF x = a.x_init \/ x = a.x_goal THEN TRUE
    ELSE /\ \A dim \in 1..2 :
              /\ ~(x[dim] < a.statespace_lo[dim])
              /\ ~(x[dim] >= a.statespace_hi[dim])
         /\ DetOccupancyGrid2D_is_free(a.occupancy, x)

\* np.sqrt(0.5*self.resolution), line 75, in hundredths
d_step == sqrt(50 * resolution)

\* lines 74-82: the list keeps its order and its repeated entries
get_neighbors(a, x) ==
    LET neighbors ==
            << <<x[1], x[2] + resolution>>, <<x[1], x[2] - resolution>>,
               <<x[1] - resolution, x[2]>>, <<x[1] + resolution, x[2]>>,
               <<x[1] - d_step, x[2] + d_step>>, <<x[1] + d_step, x[2] + d_step>>,
               <<x[1] - d_step, x[2] - d_step>>, <<x[1] + d_step, x[2] - d_step>> >>
        snapped == [i \in 1..Len(neighbors) |-> snap_to_grid(neighbors[i])]
    IN  SelectSeq(snapped, LAMBDA m : is_free(a, m))

\* x in lst
Contains(lst, x) == \E i \in 1..Len(lst) : lst[i] = x

\* lst.remove(x): the first occurrence goes
Remove(lst, x) ==
    LET i == CHOOSE j \in 1..Len(lst) :
                 lst[j] = x /\ \A h \in 1..(j - 1) : lst[h] # x
    IN  SubSeq(lst, 1, i - 1) \o SubSeq(lst, i + 1, Len(lst))

\* d[key] = v on a dict
Put(d, key, v) == [y \in DOMAIN d \cup {key} |-> IF y = key THEN v ELSE d[y]]

\* lines 87-88: min keeps the first of the states of least f_score
find_best_f_score(a) ==
    LET os == a.open_set
        i == CHOOSE j \in 1..Len(os) :
                 /\ \A h \in 1..Len(os) : a.f_score[os[j]] <= a.f_score[os[h]]
                 /\ \A h \in 1..(j - 1) : a.f_score[os[h]] > a.f_score[os[j]]
    IN  os[i]

\* lines 95-99: the path, goal first; KeyError is raised when came_from has
\* no entry for current; a walk longer than the number of entries never
\* returns
RECURSIVE path_from(_, _, _)
path_from(a, path, fuel) ==
    LET current == path[Len(path)]
    IN  IF current = a.x_init THEN [raised |-> "none", path |-> path]
        ELSE IF current \notin DOMAIN a.came_from
        THEN [raised |-> "KeyError", path |-> path]
        ELSE IF fuel = 0 THEN [raised |-> "Diverges", path |-> path]
        ELSE path_from(a, Append(path, a.came_from[current]), fuel - 1)

\* lines 94-100
reconstruct_path(a) ==
    LET r == path_from(a, <<a.x_goal>>, Cardinality(DOMAIN a.came_from))
    IN  [r EXCEPT !.path = Reverse(@)]

\* lines 8-27: the object AStar(lo, hi, x_init, x_goal, occupancy) leaves
\* behind; x_current and todo are the locals of solve
AStar_init(lo, hi, xi, xg, occupancy) ==
    [ statespace_lo |-> lo,
      statespace_hi |-> hi,
      occupancy |-> occupancy,
      x_init |-> snap_to_grid(xi),
      x_goal |-> snap_to_grid(xg),
      closed_set |-> <<>>,
      open_set |-> <<xi>>,
      f_score |-> Put(<<>>, xi, distance(xi, xg)),
      g_score |-> Put(<<>>, xi, 0),
      came_from |-> <<>>,
      path |-> None,
      x_current |-> None,
      todo |-> <<>>,
      pc |-> "while" ]

\* lines 138-149: the body of the for loop, for the first state of todo
relax_closed_too(a) ==
    LET x_neigh == Head(a.todo)
        tentative_g_score == a.g_score[a.x_current] + distance(a.x_current, x_neigh)
        seen == Contains(a.open_set, x_neigh)
        rest == [a EXCEPT !.todo = Tail(a.todo),
                          !.pc = IF Tail(a.todo) = <<>> THEN "while" ELSE "for"]
    IN  IF seen /\ tentative_g_score > a.g_score[x_neigh]
        THEN rest
        ELSE [rest EXCEPT
                !.open_set = IF seen THEN @ ELSE Append(@, x_neigh),
                !.came_from = Put(@, x_neigh, a.x_current),
                !.g_score = Put(@, x_neigh, tentative_g_score),
                !.f_score = Put(@, x_neigh,
                                tentative_g_score + distance(x_neigh, a.x_goal))]

relax(a) ==
    LET x_neigh == Head(a.todo)
        tentative_g_score == a.g_score[a.x_current] + distance(a.x_current, x_neigh)
        seen == Contains(a.open_set, x_neigh)
        rest == [a EXCEPT !.todo = Tail(a.todo),
                          !.pc = IF Tail(a.todo) = <<>> THEN "while" ELSE "for"]
    IN  IF Contains(a.closed_set, x_neigh)
        THEN rest
        ELSE IF seen /\ tentative_g_score > a.g_score[x_neigh]
        THEN rest
        ELSE [rest EXCEPT
                !.open_set = IF seen THEN @ ELSE Append(@, x_neigh),
                !.came_from = Put(@, x_neigh, a.x_current),
                !.g_score = Put(@, x_neigh, tentative_g_score),
                !.f_score = Put(@, x_neigh,
                                tentative_g_score + distance(x_neigh, a.x_goal))]

\* rectangles of the occupancy grid: none, a wall with a gap at the top,
\* and a wall from edge to edge
Occupancies ==
    LET r == resolution
    IN  { <<>>,
          << << <<r, 0>>, <<r, r>> >> >>,
          << << <<r, 0>>, <<r, Width * r>> >> >> }

\* x_init as given: on the grid, and off it
AStarInitPoints == { <<0, 0>>, <<25, 0>>, <<40, 130>> }

\* x_goal as given: every grid point of the map and of the row and column
\* just outside it, and one point off the grid
AStarGoalPoints ==
    { <<resolution * c[1], resolution * c[2]>> : c \in (0..Width) \X (0..Width) }
        \cup { <<175, 180>> }

\* the RRT planner is idle while A* runs
InitAStar ==
    /\ variant = "GeometricRRT"
    /\ plen = DefaultPathLength
    /\ statespace_lo = <<0, 0>>
    /\ statespace_hi = <<GridMax, GridMax>>
    /\ x_init = <<0, 0>>
    /\ x_goal = <<GridMax, GridMax>>
    /\ obstacles = <<>>
    /\ eps = 0 /\ max_iters = 0 /\ goal_bias = 0
    /\ V = None /\ P = None /\ n = 0
    /\ success = FALSE /\ solution_path = None
    /\ k = 0 /\ x_rand = None /\ idx_near = -1 /\ x_new = None
    /\ pc = "start"
    /\ call = [op |-> "none"]
    /\ \E xi \in AStarInitPoints, xg \in AStarGoalPoints, occupancy \in Occupancies :
        astar = AStar_init(<<0, 0>>, <<Width * resolution, Width * resolution>>,
                           xi, xg, occupancy)

rrt == <<fields, args, tree, locals, pc, plen, call>>

\* lines 129-137: the loop test, the choice of x_current, the goal test,
\* the move of x_current to closed_set and the call of get_neighbors
AStarExpand ==
    /\ astar.pc = "while"
    /\ Len(astar.open_set) > 0
    /\ LET x_current == find_best_f_score(astar)
           r == reconstruct_path(astar)
           todo == get_neighbors(astar, x_current)
       IN  astar' =
             IF x_current = astar.x_goal
             THEN IF r.raised = "none"
                  THEN [astar EXCEPT !.path = r.path, !.pc = "True"]
                  ELSE [astar EXCEPT !.pc = r.raised]
             ELSE [astar EXCEPT
                     !.x_current = x_current,
                     !.open_set = Remove(@, x_current),
                     !.closed_set = Append(@, x_current),
                     !.todo = todo,
                     !.pc = IF todo = <<>> THEN "while" ELSE "for"]
    /\ UNCHANGED rrt

\* lines 137-149: one pass of the for loop
AStarRelax ==
    /\ astar.pc = "for"
    /\ astar' = relax(astar)
    /\ UNCHANGED rrt

\* lines 129 and 151
AStarReturnFalse ==
    /\ astar.pc = "while"
    /\ Len(astar.open_set) = 0
    /\ astar' = [astar EXCEPT !.pc = "False"]
    /\ UNCHANGED rrt

NextAStar ==
    \/ AStarExpand
    \/ AStarRelax
    \/ AStarReturnFalse

SpecAStar == InitAStar /\ [][NextAStar]_vars

\* ================================================================ claims
\* the motion the last iteration tested, and its verdict
LastFree == GeometricRRT_is_free_motion(obstacles, V[idx_near], x_new)

\* C1: no write of solve addresses V or P at an index >= max_iters: the
\* root write V[0] needs 0 < max_iters, and an iteration whose motion is
\* free writes V[n], P[n] only with n < max_iters.
C1_WritesWithinCapacity ==
    [][ /\ (pc = "start" /\ pc' # "start") => 0 < max_iters
        /\ (pc = "loop" /\ k' = k + 1
              /\ GeometricRRT_is_free_motion(obstacles, V[idx_near'], x_new'))
           => n < max_iters ]_vars

\* C2: P[0] = -1 and 0 <= P[i] < i for every node index 1 <= i < n.
C2_ParentLinks ==
    \A i \in 0..(n - 1) :
        IF i = 0 THEN P[i] = -1 ELSE 0 <= P[i] /\ P[i] < i

C2_Witness == n >= 3 /\ P[2] = 1

\* C3: the motion from the recorded parent of every node 1 <= i < n to
\* the node passes is_free_motion.
C3_ExtensionValidity ==
    \A i \in 1..(n - 1) :
        GeometricRRT_is_free_motion(obstacles, V[P[i]], V[i])

C3_Witness ==
    /\ obstacles # <<>>
    /\ n >= 3
    /\ V[1] # V[0] /\ V[2] # V[P[2]]
    /\ pc = "loop" /\ ~LastFree

\* C4: on success the path starts at x_init, ends at x_goal, and every
\* consecutive pair is a parent-to-child edge of the tree whose motion is
\* free.
C4_PathValidity ==
    success =>
        /\ Len(solution_path) >= 1
        /\ solution_path[1] = x_init
        /\ solution_path[Len(solution_path)] = x_goal
        /\ \A j \in 1..(Len(solution_path) - 1) :
            /\ \E i \in 1..(n - 1) :
                V[P[i]] = solution_path[j] /\ V[i] = solution_path[j + 1]
            /\ GeometricRRT_is_free_motion(obstacles, solution_path[j],
                                           solution_path[j + 1])

C4_Witness == success /\ Len(solution_path) >= 3 /\ obstacles # <<>>

\* C5: an iteration marks success exactly when its candidate x_new passes
\* is_free_motion and equals x_goal, and once success is marked the tree
\* and the loop locals never change again.
C5_SuccessIffFreeGoalHit ==
    [][ /\ (pc = "loop" /\ k' = k + 1) =>
              (success' <=>
                 (/\ GeometricRRT_is_free_motion(obstacles, V[idx_near'], x_new')
                  /\ array_equal(x_new', x_goal)))
        /\ success => UNCHANGED <<tree, locals>> ]_vars

\* C6: a solve that has ended with no appended node equal to x_goal has
\* ended normally, after exactly max_iters iterations, with success false
\* and no solution path.
C6_ExhaustionIsNormal ==
    (/\ pc \in {"done", "IndexError"}
     /\ \A i \in 1..(n - 1) : ~array_equal(V[i], x_goal))
    => (/\ pc = "done"
        /\ k = max_iters
        /\ ~success
        /\ solution_path = None)

\* C7: an iteration whose motion from x_near to x_new is not free leaves
\* V, P and n as they were, marks nothing, and stays in the loop.
C7_RejectionLeavesTree ==
    [][ (/\ pc = "loop" /\ k' = k + 1
         /\ ~GeometricRRT_is_free_motion(obstacles, V[idx_near'], x_new'))
        => (/\ UNCHANGED <<tree, success, solution_path>>
            /\ pc' = "loop") ]_vars

C7_Witness ==
    /\ pc = "loop" /\ k >= 2 /\ k < max_iters
    /\ ~LastFree
    /\ n = 1

\* the steering cost from node i (from 0) of the call's list to its query
CallDist(i) ==
    IF variant = "GeometricRRT" THEN distance_sq(call.V[i + 1], call.x)
    ELSE plen[<<call.V[i + 1], call.x>>]

\* C9: find_nearest returns an index of the list that minimizes
\* distance(node, query), node first, and the smallest such index.
C9_NearestFirstMinimum ==
    call.op = "find_nearest" =>
        /\ call.ret \in 0..(Len(call.V) - 1)
        /\ \A j \in 0..(Len(call.V) - 1) : CallDist(call.ret) <= CallDist(j)
        /\ \A j \in 0..(call.ret - 1) : CallDist(call.ret) < CallDist(j)

C9_Witness ==
    /\ call.op = "find_nearest"
    /\ variant = "DubinsRRT"
    /\ call.ret >= 1
    /\ \E j \in (call.ret + 1)..(Len(call.V) - 1) :
        CallDist(j) = CallDist(call.ret)
    /\ plen[<<call.x, call.V[call.ret + 1]>>] # CallDist(call.ret)

\* distance(x, y) < eps, resp. distance(x, y) = 0, for the call's arguments
CallWithinEps ==
    IF variant = "GeometricRRT"
    THEN distance_sq(call.x, call.y) < call.eps * call.eps
    ELSE plen[<<call.x, call.y>>] < call.eps

CallCoincident ==
    IF variant = "GeometricRRT"
    THEN distance_sq(call.x, call.y) = 0
    ELSE plen[<<call.x, call.y>>] = 0

\* C10 as stated: steer_towards returns y whenever distance(x, y) < eps,
\* and for coincident configurations it returns y at once, without taking
\* the bearing branch, for every eps, eps = 0 included.
C10_ReturnsTargetForEveryEps ==
    call.op = "steer_towards" =>
        /\ CallWithinEps => call.ret = call.y
        /\ CallCoincident => (call.branch = "return_y" /\ call.ret = call.y)

\* C10 amended: steer_towards returns y at once whenever
\* distance(x, y) < eps, hence for coincident configurations and every
\* eps > 0; with eps = 0 the test 0 < 0 fails and the other branch runs,
\* which in GeometricRRT takes the bearing arctan2(0, 0) = 0 and returns a
\* point equal to y.
C10_ReturnsTargetBelowEps ==
    call.op = "steer_towards" =>
        /\ CallWithinEps => (call.branch = "return_y" /\ call.ret = call.y)
        /\ (CallCoincident /\ call.eps > 0) =>
              (call.branch = "return_y" /\ call.ret = call.y)
        /\ (CallCoincident /\ call.eps = 0) => call.branch # "return_y"
        /\ (CallCoincident /\ call.eps = 0 /\ variant = "GeometricRRT") =>
              (call.branch = "bearing" /\ call.ret = call.y)

C10_Witness ==
    /\ call.op = "steer_towards"
    /\ variant = "GeometricRRT"
    /\ call.x = call.y
    /\ call.eps = 0
    /\ call.branch = "bearing"
    /\ call.ret = call.y

\* the straight line from x_init to x_goal runs into an obstacle
GoalBlocked == ~GeometricRRT_is_free_motion(obstacles, x_init, x_goal)

\* distance(x_init, x_goal) < eps
GoalWithinEps == distance_sq(x_init, x_goal) < eps * eps

\* C12: with goal_bias = 1.0, distance(x_init, x_goal) < eps and no
\* obstacle on the segment from x_init to x_goal, solve has succeeded once
\* its first iteration is over, with n = 2, P[1] = 0 and the path
\* [x_init, x_goal].
C12_ScenarioA ==
    (/\ goal_bias = 2 /\ GoalWithinEps /\ ~GoalBlocked
     /\ k >= 1)
    => (/\ success
        /\ k = 1
        /\ n = 2
        /\ P[1] = 0
        /\ solution_path = <<x_init, x_goal>>)

\* C13 as stated: when an obstacle crosses the straight line from x_init
\* to x_goal, a first iteration that samples the goal is rejected and
\* leaves n = 1 with the loop still running (it ends only when that was
\* the last of the max_iters iterations), and with goal_bias = 1.0 the run
\* ends exhausted with n = 1 and success false.
C13_BlockedGoalRejected ==
    GoalBlocked =>
        /\ (k = 1 /\ x_rand = x_goal) =>
              (/\ ~LastFree
               /\ n = 1 /\ ~success
               /\ pc \in {"loop", "plot", "done"}
               /\ pc # "loop" => max_iters = 1)
        /\ (goal_bias = 2 /\ k >= 1) =>
              (/\ n = 1 /\ ~success
               /\ pc \in {"loop", "plot", "done"}
               /\ pc # "loop" => k = max_iters)

\* C13 amended: the same, when moreover distance(x_init, x_goal) < eps, so
\* that the candidate steered from the root is x_goal itself.
C13_BlockedGoalWithinEps ==
    (GoalBlocked /\ GoalWithinEps) =>
        /\ (k = 1 /\ x_rand = x_goal) =>
              (/\ ~LastFree
               /\ n = 1 /\ ~success
               /\ pc \in {"loop", "plot", "done"}
               /\ pc # "loop" => max_iters = 1)
        /\ (goal_bias = 2 /\ k >= 1) =>
              (/\ n = 1 /\ ~success
               /\ pc \in {"loop", "plot", "done"}
               /\ pc # "loop" => k = max_iters)

C13_Witness ==
    /\ GoalBlocked /\ GoalWithinEps
    /\ goal_bias = 2
    /\ pc = "done" /\ k = max_iters /\ k >= 2
    /\ n = 1 /\ ~success

\* C16: on success the walk over the parent links, started at index n-1,
\* visits strictly decreasing indices, none of them the sentinel -1, and
\* ends at the root, index 0.
C16_WalkEndsAtRoot ==
    success =>
        LET w == walk_indices(V, P, x_init, n - 1)
        IN  /\ w[1] = n - 1
            /\ \A j \in 1..(Len(w) - 1) : w[j + 1] < w[j]
            /\ \A j \in 1..Len(w) : w[j] >= 0
            /\ w[Len(w)] = 0

C11_BaseRaisesNotImplemented ==
    variant = "RRT" =>
        /\ call.op # "none" => call.raised = "NotImplementedError"
        /\ pc \notin {"new", "start", "loop"} => pc = "NotImplementedError"

\* C14: a planner whose bounds, x_init and x_goal differ in dimension, or
\* with an obstacle that is not a 2-point segment, is refused by the
\* constructor: it is never constructed and never enters the loop.
C14_MisconfiguredRefused ==
    Misconfigured => pc \in {"new", "ConfigurationError"}

\* C15: reconstruct_path never looks up a state missing from came_from, and
\* when solve returns True the path starts at x_init, ends at x_goal, and
\* each state of it is a free grid neighbour of the one before.
C15_PathValid ==
    /\ astar.pc # "KeyError"
    /\ astar.pc = "True" =>
        LET p == astar.path
        IN  /\ Len(p) >= 1
            /\ p[1] = astar.x_init
            /\ p[Len(p)] = astar.x_goal
            /\ \A i \in 1..(Len(p) - 1) :
                  Contains(get_neighbors(astar, p[i]), p[i + 1])

NoDuplicate(lst) == \A i, j \in 1..Len(lst) : lst[i] = lst[j] => i = j

OpenClosedApart(a) ==
    /\ \A i \in 1..Len(a.open_set) : ~Contains(a.closed_set, a.open_set[i])
    /\ NoDuplicate(a.open_set)
    /\ NoDuplicate(a.closed_set)

\* C18: open_set and closed_set are disjoint and free of duplicates in
\* every state of solve, and a state of closed_set stays there, never
\* enters open_set again, and keeps its g_score and its came_from entry.
C18_ClosedIsFinal ==
    [][ astar.pc # "none" =>
          /\ OpenClosedApart(astar)
          /\ OpenClosedApart(astar')
          /\ \A i \in 1..Len(astar.closed_set) :
                LET x == astar.closed_set[i]
                IN  /\ astar'.closed_set[i] = x
                    /\ ~Contains(astar'.open_set, x)
                    /\ astar'.g_score[x] = astar.g_score[x]
                    /\ (x \in DOMAIN astar'.came_from) = (x \in DOMAIN astar.came_from)
                    /\ x \in DOMAIN astar.came_from =>
                          astar'.came_from[x] = astar.came_from[x] ]_vars

\* the for loop is at a neighbour that is already closed, with two states
\* closed and another still open
C18_Witness ==
    /\ astar.pc = "for"
    /\ Len(astar.closed_set) >= 2
    /\ Len(astar.open_set) >= 1
    /\ Contains(astar.closed_set, Head(astar.todo))

\* C19: an iteration of the while loop either returns True or moves exactly
\* one state from open_set to closed_set, the for loop only adds to
\* open_set, and the loop is left with False only when open_set is empty.
C19_IterationMovesOne ==
    [][ /\ astar.pc = "while" =>
            \/ astar'.pc = "True"
            \/ astar'.pc = "False" /\ astar.open_set = <<>>
            \/ /\ astar'.pc \in {"while", "for"}
               /\ \E i \in 1..Len(astar.open_set) :
                    /\ astar'.closed_set = Append(astar.closed_set, astar.open_set[i])
                    /\ astar'.open_set = SubSeq(astar.open_set, 1, i - 1)
                                           \o SubSeq(astar.open_set, i + 1, Len(astar.open_set))
        /\ astar.pc = "for" =>
            /\ astar'.closed_set = astar.closed_set
            /\ Len(astar'.open_set) >= Len(astar.open_set)
            /\ SubSeq(astar'.open_set, 1, Len(astar.open_set)) = astar.open_set ]_vars

====
